---- MODULE Spec2Model ----
(***************************************************************************)
(* A model of pydoop's setup.py: the path prober (SetupPathFinder), the    *)
(* libhdfs capability detector (get_hdfs_macros), the Boost.Python glue    *)
(* generator and source patcher (BoostExtension), the build_ext            *)
(* finalize_options pipeline and the clean command.                        *)
(*                                                                         *)
(* Text is modelled as a sequence of tokens (each token a string that      *)
(* stands for a run of characters); a path is the token sequence of its    *)
(* text, with "/" as a token of its own: "src/pipes.cpp" is                *)
(* <<"src", "/", "pipes", ".cpp">>.                                        *)
(***************************************************************************)
EXTENDS Integers, Sequences, FiniteSets, TLC

VARIABLES
  clock,    \* the filesystem clock, in ticks of the mtime granularity
  files,    \* regular files: path -> [mt: mtime, data: text]
  dirs,     \* directories that exist (their ancestors exist with them)
  environ,  \* os.environ restricted to the variables setup.py reads
  host,     \* the machine and its interpreter: pointer width, the orders in which
            \* dicts and directories list their entries, what PathFinder reports
  shape,    \* how the hdfs.h on disk declares the two functions (ghost)
  made,     \* the files the builds have written since the last clean (ghost)
  last      \* what the last command did (history, for stating properties)

vars == <<clock, files, dirs, environ, host, shape, made, last>>

-----------------------------------------------------------------------------
(* Bounds of the model *)

\* the clock stops after this many ticks
MaxTime == 2
\* how many wrap sources of the pipes module the environment touches or removes
NTouched == 1
\* longest third-party source text (in tokens) the patcher is tried on
MaxText == 3
\* most parameters of a signature in a tried hdfs.h
MaxParams == 4
\* most include lines an edited original holds
MaxIncludes == 2

-----------------------------------------------------------------------------
(* Generic helpers *)

Some(v) == [some |-> TRUE, val |-> v]
None == [some |-> FALSE, val |-> <<>>]

Range(s) == {s[i] : i \in DOMAIN s}

RECURSIVE Flatten(_)
Flatten(ss) == IF ss = <<>> THEN <<>> ELSE Head(ss) \o Flatten(Tail(ss))

MaxOf(S) == CHOOSE m \in S : \A n \in S : n <= m

\* the sequences that list every element of the finite set S exactly once
Orderings(S) ==
  {s \in [1..Cardinality(S) -> S] : \A i, j \in DOMAIN s : i # j => s[i] # s[j]}

SEP == "/"

\* os.path.join(a, b) for a relative b
os_path_join(a, b) ==
  IF a = <<>> THEN b
  ELSE IF a[Len(a)] = SEP THEN a \o b
  ELSE a \o <<SEP>> \o b

\* os.path.join(a, c1, c2, ...): cs is the sequence of the further arguments
RECURSIVE JoinAll(_, _)
JoinAll(a, cs) ==
  IF cs = <<>> THEN a ELSE JoinAll(os_path_join(a, Head(cs)), Tail(cs))

\* the index of the last separator of p, 0 when there is none
LastSep(p) ==
  LET S == {i \in DOMAIN p : p[i] = SEP} IN IF S = {} THEN 0 ELSE MaxOf(S)

\* os.path.split(p): (head, tail); the head of "/x" is "/"
os_path_split(p) ==
  LET i == LastSep(p) IN
  IF i = 0 THEN <<(<<>>), p>>
  ELSE IF \A j \in 1..i : p[j] = SEP THEN <<SubSeq(p, 1, i), SubSeq(p, i + 1, Len(p))>>
  ELSE <<SubSeq(p, 1, i - 1), SubSeq(p, i + 1, Len(p))>>

os_path_dirname(p) == os_path_split(p)[1]
os_path_basename(p) == os_path_split(p)[2]

ROOT == <<SEP>>

-----------------------------------------------------------------------------
(* The filesystem *)

\* the directories above p
Ancestors(p) ==
  {SubSeq(p, 1, i - 1) : i \in {k \in 2..Len(p) : p[k] = SEP /\ p[k - 1] # SEP}}
    \cup (IF Len(p) > 1 /\ p[1] = SEP THEN {ROOT} ELSE {})

\* every path that exists: the files, the directories and all their ancestors;
\* the operators below take this set as ex
Existing(fl, ds) ==
  LET base == DOMAIN fl \cup ds IN
  base \cup UNION {Ancestors(p) : p \in base}

os_path_exists(ex, p) == p \in ex

\* the names in directory d
os_listdir(ex, d) ==
  {os_path_basename(p) : p \in {q \in ex : q # d /\ os_path_dirname(q) = d}}

\* whether path p matches the glob pattern pat; "*" is a token of the pattern
\* that matches any run of tokens within one path component
RECURSIVE fnmatch(_, _)
fnmatch(p, pat) ==
  IF pat = <<>> THEN p = <<>>
  ELSE IF Head(pat) = "*"
    THEN \E k \in 0..Len(p) :
           /\ \A l \in 1..k : p[l] # SEP
           /\ fnmatch(SubSeq(p, k + 1, Len(p)), Tail(pat))
  ELSE p # <<>> /\ Head(p) = Head(pat) /\ fnmatch(Tail(p), Tail(pat))

\* the set of existing paths a glob pattern matches
GlobSet(ex, pattern) == {p \in ex : fnmatch(p, pattern)}

Reverse(s) == [i \in DOMAIN s |-> s[Len(s) + 1 - i]]

\* glob.glob(pattern): the matches in directory-listing order, which is
\* whatever order the filesystem lists names in: one order or its reverse
glob_glob(ex, pattern, rev) ==
  LET M == GlobSet(ex, pattern)
      s == CHOOSE o \in Orderings(M) : TRUE
  IN IF rev THEN Reverse(s) ELSE s

\* mtime(fn): os.stat(fn).st_mtime, an OSError when fn does not exist
StatFails(fl, fn) == fn \notin DOMAIN fl
mtime(fl, fn) == fl[fn].mt

\* as a must_generate that takes a failed stat for "up to date" would decide
must_generate_quiet(fl, target, prerequisites) ==
  IF (\E p \in Range(prerequisites) : StatFails(fl, p)) \/ StatFails(fl, target)
  THEN FALSE
  ELSE MaxOf({mtime(fl, p) : p \in Range(prerequisites)}) > mtime(fl, target)

\* as a must_generate that compares with >= would decide
must_generate_ge(fl, target, prerequisites) ==
  IF (\E p \in Range(prerequisites) : StatFails(fl, p)) \/ StatFails(fl, target)
  THEN TRUE
  ELSE MaxOf({mtime(fl, p) : p \in Range(prerequisites)}) >= mtime(fl, target)

must_generate(fl, target, prerequisites) ==
  IF (\E p \in Range(prerequisites) : StatFails(fl, p)) \/ StatFails(fl, target)
  THEN TRUE
  ELSE MaxOf({mtime(fl, p) : p \in Range(prerequisites)}) > mtime(fl, target)

\* open(fn, "w"); write(data); close(): the file gets the clock's time
WriteFile(fl, fn, data, now) ==
  [p \in DOMAIN fl \cup {fn} |-> IF p = fn THEN [mt |-> now, data |-> data] ELSE fl[p]]

RemoveFile(fl, fn) == [p \in DOMAIN fl \ {fn} |-> fl[p]]

-----------------------------------------------------------------------------
(* Utility functions of setup.py *)

\* get_arch(): ("amd64", "64") on a 64-bit machine, else ("i386", "32")
get_arch(h) == IF h.bits = "64bit" THEN <<"amd64", "64">> ELSE <<"i386", "32">>

\* "Linux-%s-%s" % get_arch(), one path component
arch_string(h) ==
  IF get_arch(h) = <<"amd64", "64">> THEN <<"Linux-amd64-64">> ELSE <<"Linux-i386-32">>

\* find_first_existing(*paths): the first path that exists, or None
find_first_existing(ex, paths) ==
  LET S == {i \in DOMAIN paths : os_path_exists(ex, paths[i])} IN
  IF S = {} THEN None ELSE Some(paths[CHOOSE i \in S : \A j \in S : i <= j])

\* the paths find_first_existing asks the filesystem about
find_first_existing_stats(ex, paths) ==
  {paths[i] : i \in {k \in DOMAIN paths :
                       \A j \in 1..(k - 1) : ~os_path_exists(ex, paths[j])}}

\* os.getenv(name): None when unset
os_getenv(env, name) == IF env[name].set THEN Some(env[name].val) ELSE None

\* Python truth of a string-or-None value
Truthy(o) == o.some /\ o.val # <<>>

-----------------------------------------------------------------------------
(* SetupPathFinder *)

JDK_CANDIDATES ==
  << <<SEP, "opt", SEP, "sun-jdk">>,
     <<SEP, "usr", SEP, "lib", SEP, "jvm", SEP, "java-6-sun">> >>

USR_SRC == <<SEP, "usr", SEP, "src">>
USR_INCLUDE == <<SEP, "usr", SEP, "include">>
USR_LIB == <<SEP, "usr", SEP, "lib">>

\* the tokens of the model that consist of word characters (\w)
WordTokens ==
  {"hadoop", "2", "linux", "a", "b", "void", "export_", "pipes", "pipes_context",
   "pipes_test_support", "pipes_serial_utils", "exceptions", "pipes_input_split",
   "hdfs_fs", "hdfs_file", "hdfs_common"}

\* string order of the tokens that occur in names under /usr/src
TokenOrder == <<"-", "0.20", "1.0", "2", "hadoop", "linux">>
TokenRank(t) == CHOOSE i \in DOMAIN TokenOrder : TokenOrder[i] = t

\* a < b as strings
RECURSIVE StrLess(_, _)
StrLess(a, b) ==
  IF b = <<>> THEN FALSE
  ELSE IF a = <<>> THEN TRUE
  ELSE IF Head(a) = Head(b) THEN StrLess(Tail(a), Tail(b))
  ELSE TokenRank(Head(a)) < TokenRank(Head(b))

\* re.match(r"hadoop\b.*", name)
MatchesHadoopWord(name) ==
  /\ name # <<>>
  /\ name[1] = "hadoop"
  /\ Len(name) = 1 \/ name[2] \notin WordTokens

\* SetupPathFinder.__find_hadoop_src: [val: the source root or None,
\* probed: the paths it asked the filesystem about]
find_hadoop_src(ex, env, h) ==
  LET e == os_getenv(env, "HADOOP_SRC")
      home == h.hadoop_home
      src == os_path_join(home.val, <<"src">>)
      viaHome == Truthy(home) /\ os_path_exists(ex, src)
      homeStats == IF Truthy(home) THEN {src} ELSE {}
      path_list == {n \in os_listdir(ex, USR_SRC) : MatchesHadoopWord(n)}
      first == CHOOSE n \in path_list : \A m \in path_list : m = n \/ StrLess(n, m)
  IN
  IF Truthy(e) THEN [val |-> Some(e.val), probed |-> {}]
  ELSE IF viaHome THEN [val |-> Some(src), probed |-> homeStats]
  ELSE IF os_path_exists(ex, USR_SRC) /\ path_list # {}
    THEN [val |-> Some(os_path_join(USR_SRC, first)), probed |-> homeStats \cup {USR_SRC}]
  ELSE [val |-> None, probed |-> homeStats \cup {USR_SRC}]

PATHSEP == ":"

\* s.split(os.pathsep)
RECURSIVE SplitPathsep(_)
SplitPathsep(s) ==
  LET S == {i \in DOMAIN s : s[i] = PATHSEP} IN
  IF S = {} THEN <<s>>
  ELSE LET i == CHOOSE k \in S : \A l \in S : k <= l IN
       <<SubSeq(s, 1, i - 1)>> \o SplitPathsep(SubSeq(s, i + 1, Len(s)))

\* the two include directories looked for in the source tree
SrcIncPaths(src) ==
  << JoinAll(src, << <<"c++">>, <<"pipes">>, <<"api">>, <<"hadoop">> >>),
     JoinAll(src, << <<"c++">>, <<"utils">>, <<"api">>, <<"hadoop">> >>) >>

\* the three glob patterns of the fallback search, in the order tried
IncGlobPatterns(src, h) ==
  << JoinAll(src, << <<"mapred">>, <<"c++">>, arch_string(h), <<"include">>, <<"hadoop">> >>),
     JoinAll(src, << <<"c++">>, arch_string(h), <<"include">>, <<"hadoop">> >>),
     JoinAll(ROOT, << <<"usr">>, <<"include">>, <<"hadoop", "*">> >>) >>

MSG_INC == <<"Couldn't find Hadoop c++ include directory, ",
             "try specifying one with ", "HADOOP_INC_PATH">>

RuntimeError(msg) == Some([type |-> "RuntimeError", msg |-> msg])

\* SetupPathFinder.__set_mapred_inc_paths: [val: mapred_inc, err, probed]
set_mapred_inc_paths_swapped(ex, env, h, src) ==
  LET e == os_getenv(env, "HADOOP_INCLUDE_PATHS")
      src_paths == Reverse(SrcIncPaths(src))
      pats == IncGlobPatterns(src, h)
      candidate_paths == glob_glob(ex, pats[1], h.glob_reversed) \o glob_glob(ex, pats[2], h.glob_reversed)
                           \o glob_glob(ex, pats[3], h.glob_reversed)
  IN
  IF Truthy(e) THEN [val |-> SplitPathsep(e.val), err |-> None, probed |-> {}]
  ELSE IF \A i \in DOMAIN src_paths : os_path_exists(ex, src_paths[i])
    THEN [val |-> [i \in DOMAIN src_paths |-> os_path_dirname(src_paths[i])],
          err |-> None, probed |-> Range(src_paths)]
  ELSE IF candidate_paths # <<>>
    THEN [val |-> <<os_path_dirname(candidate_paths[1])>>, err |-> None,
          probed |-> Range(src_paths) \cup Range(pats)]
  ELSE [val |-> <<>>, err |-> RuntimeError(MSG_INC),
        probed |-> Range(src_paths) \cup Range(pats)]

set_mapred_inc_paths(ex, env, h, src) ==
  LET e == os_getenv(env, "HADOOP_INCLUDE_PATHS")
      src_paths == SrcIncPaths(src)
      pats == IncGlobPatterns(src, h)
      candidate_paths == glob_glob(ex, pats[1], h.glob_reversed) \o glob_glob(ex, pats[2], h.glob_reversed)
                           \o glob_glob(ex, pats[3], h.glob_reversed)
  IN
  IF Truthy(e) THEN [val |-> SplitPathsep(e.val), err |-> None, probed |-> {}]
  ELSE IF \A i \in DOMAIN src_paths : os_path_exists(ex, src_paths[i])
    THEN [val |-> [i \in DOMAIN src_paths |-> os_path_dirname(src_paths[i])],
          err |-> None, probed |-> Range(src_paths)]
  ELSE IF candidate_paths # <<>>
    THEN [val |-> <<os_path_dirname(candidate_paths[1])>>, err |-> None,
          probed |-> Range(src_paths) \cup Range(pats)]
  ELSE [val |-> <<>>, err |-> RuntimeError(MSG_INC),
        probed |-> Range(src_paths) \cup Range(pats)]

HDFS_H == <<"hdfs.h">>
LIBHDFS_SO == <<"libhdfs.so">>

MSG_HDFS_INC == <<"Couldn't find hdfs.h in source directory or /usr/include">>
MSG_HDFS_LINK == <<"Couldn't find libhdfs.so in HADOOP_HOME or /usr/lib">>

\* SetupPathFinder.__set_hdfs_inc_path: [val: hdfs_inc_path, err]
set_hdfs_inc_path(ex, h, src) ==
  LET candidate_paths ==
        glob_glob(ex, JoinAll(ROOT, << <<"usr">>, <<"include">>, HDFS_H >>), h.glob_reversed)
          \o glob_glob(ex, JoinAll(ROOT, << <<"usr">>, <<"include">>, <<"hadoop", "*">>, HDFS_H >>), h.glob_reversed)
          \o glob_glob(ex, JoinAll(src, << <<"c++">>, <<"libhdfs">>, HDFS_H >>), h.glob_reversed)
  IN
  IF candidate_paths # <<>>
  THEN [val |-> os_path_split(candidate_paths[1])[1], err |-> None]
  ELSE [val |-> <<>>, err |-> RuntimeError(MSG_HDFS_INC)]

\* SetupPathFinder.__set_hdfs_link_paths: [val: hdfs_link_paths["L"], err];
\* os.path.join(None, ...) raises when hadoop_home() is None
set_hdfs_link_paths(ex, h) ==
  LET home == h.hadoop_home.val
      candidate_paths ==
        glob_glob(ex, JoinAll(ROOT, << <<"usr">>, <<"lib", "*">>, <<"libhdfs.so", "*">> >>), h.glob_reversed)
          \o glob_glob(ex, JoinAll(home, << <<"lib", "*">>, LIBHDFS_SO >>), h.glob_reversed)
          \o glob_glob(ex, JoinAll(home, << <<"hdfs">>, <<"c++">>, arch_string(h), <<"lib">>, LIBHDFS_SO >>), h.glob_reversed)
          \o glob_glob(ex, JoinAll(home, << <<"c++">>, arch_string(h), <<"lib">>, LIBHDFS_SO >>), h.glob_reversed)
      dir_ == os_path_split(candidate_paths[1])[1]
  IN
  IF ~h.hadoop_home.some
  THEN [val |-> <<>>,
        err |-> Some([type |-> "AttributeError",
                      msg |-> <<"'NoneType' object has no attribute 'endswith'">>])]
  ELSE IF candidate_paths # <<>>
  THEN [val |-> IF dir_ # USR_LIB THEN <<dir_>> ELSE <<>>, err |-> None]
  ELSE [val |-> <<>>, err |-> RuntimeError(MSG_HDFS_LINK)]

MSG_JAVA == <<"Could not determine ", "JAVA_HOME", " path">>
MSG_SRC == <<"Couldn't find Hadoop source code, please specify a path through the ",
             "HADOOP_SRC", " environment variable or provide ", "HADOOP_HOME",
             " with a 'src' directory under it">>

\* the message expression of the c++ check, "..." + "..." % self.src, applies %
\* to a string with no conversion in it: it raises a TypeError of its own
ERR_MAPRED_SRC ==
  Some([type |-> "TypeError",
        msg |-> <<"not all arguments converted during string formatting">>])

\* os.getenv("JAVA_HOME", find_first_existing(...)): Python evaluates the
\* default before the call, so paths are always searched; [val, probed]
java_home_of(ex, env) ==
  LET default == find_first_existing(ex, JDK_CANDIDATES)
      e == os_getenv(env, "JAVA_HOME")
  IN [val |-> IF e.some THEN e ELSE default,
      probed |-> find_first_existing_stats(ex, JDK_CANDIDATES)]

NoPaths ==
  [err |-> None, stage |-> "", java_home |-> None, src |-> None, mapred_src |-> <<>>,
   mapred_inc |-> <<>>, hdfs_inc_path |-> <<>>, link_L |-> <<>>,
   probed |-> [java |-> {}, src |-> {}, inc |-> {}]]

\* SetupPathFinder.__init__ / __init_paths: the probed paths, or the error and
\* the stage that raised it
init_paths(fl, ds, env, h) ==
  LET ex == Existing(fl, ds)
      j == java_home_of(ex, env)
      s == find_hadoop_src(ex, env, h)
      src == s.val.val
      mapred_src == os_path_join(src, <<"c++">>)
      inc == set_mapred_inc_paths(ex, env, h, src)
      hinc == set_hdfs_inc_path(ex, h, src)
      link == set_hdfs_link_paths(ex, h)
      p1 == [NoPaths EXCEPT !.java_home = j.val, !.probed.java = j.probed]
      p2 == [p1 EXCEPT !.src = s.val, !.probed.src = s.probed]
      p3 == [p2 EXCEPT !.mapred_src = mapred_src]
      p4 == [p3 EXCEPT !.mapred_inc = inc.val, !.probed.inc = inc.probed]
      p5 == [p4 EXCEPT !.hdfs_inc_path = hinc.val]
      p6 == [p5 EXCEPT !.link_L = link.val]
  IN
  IF ~j.val.some
    THEN [p1 EXCEPT !.err = RuntimeError(MSG_JAVA), !.stage = "java_home"]
  ELSE IF ~Truthy(s.val)
    THEN [p2 EXCEPT !.err = RuntimeError(MSG_SRC), !.stage = "src"]
  ELSE IF ~os_path_exists(ex, mapred_src)
    THEN [p3 EXCEPT !.err = ERR_MAPRED_SRC, !.stage = "mapred_src"]
  ELSE IF inc.err.some
    THEN [p4 EXCEPT !.err = inc.err, !.stage = "mapred_inc"]
  ELSE IF hinc.err.some
    THEN [p5 EXCEPT !.err = hinc.err, !.stage = "hdfs_inc_path"]
  ELSE IF link.err.some
    THEN [p6 EXCEPT !.err = link.err, !.stage = "hdfs_link_paths"]
  ELSE p6

-----------------------------------------------------------------------------
(* get_hdfs_macros *)

NL == "\n"

\* re.search(name + r"\((.+)\)", t): the group of the leftmost match, or None.
\* "." does not match a newline and ".+" is greedy: the group runs to the last
\* ")" of the line
SearchArgs(t, name) ==
  LET Ends(i) == {j \in (i + 3)..Len(t) :
                    /\ t[j] = ")"
                    /\ \A k \in (i + 2)..(j - 1) : t[k] # NL}
      Starts == {i \in 1..(Len(t) - 3) :
                   t[i] = name /\ t[i + 1] = "(" /\ Ends(i) # {}}
      i0 == CHOOSE i \in Starts : \A k \in Starts : i <= k
  IN IF Starts = {} THEN None ELSE Some(SubSeq(t, i0 + 2, MaxOf(Ends(i0)) - 1))

\* len(s.split(","))
SplitCount(s) == Cardinality({i \in DOMAIN s : s[i] = ","}) + 1

ERR_NO_MATCH ==
  Some([type |-> "AttributeError",
        msg |-> <<"'NoneType' object has no attribute 'groups'">>])

\* get_hdfs_macros(hdfs_hdr): [val: the names of the macros defined, err]
get_hdfs_macros(fl, hdfs_hdr) ==
  LET t == fl[hdfs_hdr].data
      delete_args == SearchArgs(t, "hdfsDelete")
      cas_args == SearchArgs(t, "hdfsConnectAsUser")
  IN
  IF ~delete_args.some \/ ~cas_args.some THEN [val |-> {}, err |-> ERR_NO_MATCH]
  ELSE [val |-> (IF SplitCount(delete_args.val) > 2 THEN {"RECURSIVE_DELETE"} ELSE {})
                  \cup (IF SplitCount(cas_args.val) > 3 THEN {"CONNECT_GROUP_INFO"} ELSE {}),
        err |-> None]

-----------------------------------------------------------------------------
(* Extension objects *)

PIPES_SRC == << <<"pipes">>, <<"pipes_context">>, <<"pipes_test_support">>,
                <<"pipes_serial_utils">>, <<"exceptions">>, <<"pipes_input_split">> >>
HDFS_SRC == << <<"hdfs_fs">>, <<"hdfs_file">>, <<"hdfs_common">> >>
PIPES_EXT_NAME == <<"_pipes">>
HDFS_EXT_NAME == <<"_hdfs">>

\* ["src/%s.cpp" % n for n in names]
WrapSources(names) == [i \in DOMAIN names |-> <<"src", SEP>> \o names[i] \o <<".cpp">>]

\* the patch texts; a token stands for the run of characters it spells
SIG_OLD == "void deserializeFloat(float& t, InStream& stream)"
SIG_NEW == "float deserializeFloat(InStream& stream)"
BODY_OLD == "{ char buf[sizeof(float)]; ... xdr_float(&xdrs, &t); }"
BODY_NEW == "{ float t; char buf[sizeof(float)]; ... xdr_float(&xdrs, &t); return t; }"
OLD_DESERIALIZE_FLOAT == <<SIG_OLD, BODY_OLD>>
NEW_DESERIALIZE_FLOAT == <<SIG_NEW, BODY_NEW>>

WB_HEAD == "void writeBuffer(const string& buffer) { fprintf(stream, "
WB_FMT == "\"%s\", "
WB_TAIL == "quoteString(buffer, \"\\t\\n\").c_str()); }"
OLD_WRITE_BUFFER == <<WB_HEAD, WB_TAIL>>
NEW_WRITE_BUFFER == <<WB_HEAD, WB_FMT, WB_TAIL>>

INC_STDINT == "#include <stdint.h>\n"
INC_PIPES_HH == "#include \"hadoop/Pipes.hh\"\n"
INC_SERIAL_UTILS_HH == "#include \"hadoop/SerialUtils.hh\"\n"
OLD_PIPES_CC_INCLUDE == <<INC_PIPES_HH>>
NEW_PIPES_CC_INCLUDE == <<INC_STDINT, INC_PIPES_HH>>
OLD_SERIAL_UTILS_INCLUDE == <<INC_SERIAL_UTILS_HH>>
NEW_SERIAL_UTILS_INCLUDE == <<INC_STDINT, INC_SERIAL_UTILS_HH>>

\* pydoop.complete_mod_name(module, version): the package, the module and the
\* version's tag, "pydoop._pipes_1_0_4"
complete_mod_name(module, version) == <<"pydoop", ".">> \o module \o <<"_", version>>

\* name.rsplit(".", 1)[-1]
LastDotted(name) ==
  LET S == {i \in DOMAIN name : name[i] = "."} IN
  IF S = {} THEN name ELSE SubSeq(name, MaxOf(S) + 1, Len(name))

\* BoostExtension.__init__
BoostExtension(name, wrap_sources, patches) ==
  [name |-> name, module_name |-> LastDotted(name),
   wrap_sources |-> wrap_sources, patches |-> patches]

SERIAL_UTILS_CC(basedir) == JoinAll(basedir, << <<"utils">>, <<"impl">>, <<"SerialUtils.cc">> >>)
STRING_UTILS_CC(basedir) == JoinAll(basedir, << <<"utils">>, <<"impl">>, <<"StringUtils.cc">> >>)
PIPES_CC(basedir) == JoinAll(basedir, << <<"pipes">>, <<"impl">>, <<"HadoopPipes.cc">> >>)

\* the patches dict of create_full_pipes_ext: file -> {(old, new)}
PatchTable(basedir) ==
  [fn \in {SERIAL_UTILS_CC(basedir), STRING_UTILS_CC(basedir), PIPES_CC(basedir)} |->
     IF fn = SERIAL_UTILS_CC(basedir)
       THEN {<<OLD_DESERIALIZE_FLOAT, NEW_DESERIALIZE_FLOAT>>,
             <<OLD_SERIAL_UTILS_INCLUDE, NEW_SERIAL_UTILS_INCLUDE>>}
     ELSE IF fn = PIPES_CC(basedir)
       THEN {<<OLD_WRITE_BUFFER, NEW_WRITE_BUFFER>>,
             <<OLD_PIPES_CC_INCLUDE, NEW_PIPES_CC_INCLUDE>>}
     ELSE {}]

NoPatches == [fn \in {} |-> {}]

create_full_pipes_ext(path_finder, h) ==
  BoostExtension(complete_mod_name(PIPES_EXT_NAME, h.hadoop_version),
                 WrapSources(PIPES_SRC), PatchTable(path_finder.mapred_src))

\* create_full_hdfs_ext without its macros, which get_hdfs_macros computes
create_full_hdfs_ext(path_finder, h) ==
  BoostExtension(complete_mod_name(HDFS_EXT_NAME, h.hadoop_version),
                 WrapSources(HDFS_SRC), NoPatches)

-----------------------------------------------------------------------------
(* BoostExtension.generate_main *)

IsSpace(t) == t \in {" ", NL}

\* as r"void\s*export_(\w+)" would search
ExportSearch_no_space(code) ==
  LET After(i) == CHOOSE k \in (i + 1)..(Len(code) + 1) :
                    /\ k = Len(code) + 1 \/ ~IsSpace(code[k])
                    /\ \A l \in (i + 1)..(k - 1) : IsSpace(code[l])
      Hit(i) == /\ code[i] = "void"
                /\ After(i) >= i + 1
                /\ After(i) + 1 <= Len(code)
                /\ code[After(i)] = "export_"
                /\ code[After(i) + 1] \in WordTokens
      Starts == {i \in DOMAIN code : Hit(i)}
      i0 == CHOOSE i \in Starts : \A k \in Starts : i <= k
      b == After(i0) + 1
      e == CHOOSE k \in b..Len(code) :
             /\ \A l \in b..k : code[l] \in WordTokens
             /\ k = Len(code) \/ code[k + 1] \notin WordTokens
  IN IF Starts = {} THEN None ELSE Some(SubSeq(code, b, e))

\* export_pattern.search(code), r"void\s+export_(\w+)": the group of the
\* leftmost match, or None
ExportSearch(code) ==
  LET After(i) == CHOOSE k \in (i + 1)..(Len(code) + 1) :
                    /\ k = Len(code) + 1 \/ ~IsSpace(code[k])
                    /\ \A l \in (i + 1)..(k - 1) : IsSpace(code[l])
      Hit(i) == /\ code[i] = "void"
                /\ After(i) >= i + 2
                /\ After(i) + 1 <= Len(code)
                /\ code[After(i)] = "export_"
                /\ code[After(i) + 1] \in WordTokens
      Starts == {i \in DOMAIN code : Hit(i)}
      i0 == CHOOSE i \in Starts : \A k \in Starts : i <= k
      b == After(i0) + 1
      e == CHOOSE k \in b..Len(code) :
             /\ \A l \in b..k : code[l] \in WordTokens
             /\ k = Len(code) \/ code[k + 1] \notin WordTokens
  IN IF Starts = {} THEN None ELSE Some(SubSeq(code, b, e))

IOError(fn) == Some([type |-> "IOError", msg |-> <<"No such file or directory: ">> \o fn])

\* the export function names found in the wrap sources, in their order
RECURSIVE FunNames(_, _)
FunNames(fl, wrap_sources) ==
  IF wrap_sources = <<>> THEN <<>>
  ELSE LET m == ExportSearch(fl[Head(wrap_sources)].data) IN
       (IF m.some THEN << <<"export_">> \o m.val >> ELSE <<>>)
         \o FunNames(fl, Tail(wrap_sources))

LINE_INCLUDE == <<"#include <boost/python.hpp>">>
DeclLine(fun_name) == <<"void", " ">> \o fun_name \o <<"(", ")", ";">>
CallLine(fun_name) == fun_name \o <<"(", ")", ";">>
ModuleLine(module_name) == <<"BOOST_PYTHON_MODULE", "(">> \o module_name \o <<")", "{">>

\* the text generate_main writes: every line followed by os.linesep
MainText(fl, ext) ==
  LET funs == FunNames(fl, ext.wrap_sources)
      first_half == <<LINE_INCLUDE>> \o [i \in DOMAIN funs |-> DeclLine(funs[i])]
      second_half == <<ModuleLine(ext.module_name)>>
                       \o [i \in DOMAIN funs |-> CallLine(funs[i])] \o << <<"}">> >>
      lines == first_half \o second_half
  IN Flatten([i \in DOMAIN lines |-> lines[i] \o <<NL>>])

MainFile(ext) ==
  os_path_join(os_path_split(ext.wrap_sources[1])[1], ext.module_name \o <<"_main.cpp">>)

\* generate_main: [fl: the files after it, err, checked, wrote]
generate_main(fl, now, ext) ==
  LET outfn == MainFile(ext)
      missing == {i \in DOMAIN ext.wrap_sources : ext.wrap_sources[i] \notin DOMAIN fl}
      first == CHOOSE i \in missing : \A k \in missing : i <= k
  IN
  IF ~must_generate(fl, outfn, ext.wrap_sources)
    THEN [fl |-> fl, err |-> None, checked |-> {outfn}, wrote |-> {}]
  ELSE IF missing # {}
    THEN [fl |-> fl, err |-> IOError(ext.wrap_sources[first]), checked |-> {outfn}, wrote |-> {}]
  ELSE [fl |-> WriteFile(fl, outfn, MainText(fl, ext), now), err |-> None,
        checked |-> {outfn}, wrote |-> {outfn}]

-----------------------------------------------------------------------------
(* BoostExtension.generate_patched_aux *)

IsPrefix(old, s) == Len(old) <= Len(s) /\ SubSeq(s, 1, Len(old)) = old

\* as s.replace(old, new, 1) would replace
RECURSIVE str_replace_first(_, _, _)
str_replace_first(s, old, new) ==
  IF s = <<>> THEN <<>>
  ELSE IF IsPrefix(old, s)
    THEN new \o SubSeq(s, Len(old) + 1, Len(s))
  ELSE <<Head(s)>> \o str_replace_first(Tail(s), old, new)

\* s.replace(old, new), old not empty: left to right, without rescanning
RECURSIVE str_replace(_, _, _)
str_replace(s, old, new) ==
  IF s = <<>> THEN <<>>
  ELSE IF IsPrefix(old, s)
    THEN new \o str_replace(SubSeq(s, Len(old) + 1, Len(s)), old, new)
  ELSE <<Head(s)>> \o str_replace(Tail(s), old, new)

\* as a patcher that applies each replacement to its own result once more
RECURSIVE ApplyRules_twice(_, _)
ApplyRules_twice(contents, rules) ==
  IF rules = <<>> THEN contents
  ELSE ApplyRules_twice(str_replace(str_replace(contents, Head(rules)[1], Head(rules)[2]),
                                    Head(rules)[1], Head(rules)[2]),
                        Tail(rules))

\* for old, new in p.iteritems(): contents = contents.replace(old, new)
RECURSIVE ApplyRules(_, _)
ApplyRules(contents, rules) ==
  IF rules = <<>> THEN contents
  ELSE ApplyRules(str_replace(contents, Head(rules)[1], Head(rules)[2]), Tail(rules))

PatchedFile(fn) == <<"src", SEP>> \o os_path_basename(fn)

\* p.iteritems(): the rules in the dict's order, which the interpreter's
\* hashing decides
RuleOrder(p, h) ==
  LET s == CHOOSE o \in Orderings(p) : TRUE IN IF h.rules_reversed THEN Reverse(s) ELSE s

\* self.patches.iteritems(): the files in the dict's order
KeyOrder(patches, h) ==
  LET keys == CHOOSE o \in Orderings(DOMAIN patches) : TRUE IN
  [i \in DOMAIN keys |-> keys[h.key_order[i]]]

\* the loop of generate_patched_aux over todo, the files in the dict's order
\* one more file checked, and written when wrote says so
AddPatched(r, patched_fn, wrote) ==
  [r EXCEPT !.checked = @ \cup {patched_fn},
            !.wrote = IF wrote THEN @ \cup {patched_fn} ELSE @]

RECURSIVE PatchLoop(_, _, _, _, _)
PatchLoop(fl, now, patches, todo, h) ==
  IF todo = <<>> THEN [fl |-> fl, err |-> None, checked |-> {}, wrote |-> {}]
  ELSE
    LET fn == Head(todo)
        patched_fn == PatchedFile(fn)
    IN
    IF ~must_generate(fl, patched_fn, <<fn>>)
      THEN AddPatched(PatchLoop(fl, now, patches, Tail(todo), h), patched_fn, FALSE)
    ELSE IF fn \notin DOMAIN fl
      THEN [fl |-> fl, err |-> IOError(fn), checked |-> {patched_fn}, wrote |-> {}]
    ELSE AddPatched(PatchLoop(WriteFile(fl, patched_fn,
                                        ApplyRules(fl[fn].data, RuleOrder(patches[fn], h)),
                                        now),
                              now, patches, Tail(todo), h),
                    patched_fn, TRUE)

generate_patched_aux(fl, now, ext, h) ==
  IF DOMAIN ext.patches = {}
  THEN [fl |-> fl, err |-> None, checked |-> {}, wrote |-> {}]
  ELSE PatchLoop(fl, now, ext.patches, KeyOrder(ext.patches, h), h)

-----------------------------------------------------------------------------
(* build_pydoop_ext.finalize_options *)

NoError == [some |-> FALSE, val |-> [type |-> "", msg |-> <<>>]]

\* what a command leaves in the history variable
Outcome(op, dry, pf, macros, err, stage, checked, wrote) ==
  [op |-> op, dry_run |-> dry, paths |-> pf, macros |-> macros,
   err |-> IF err.some THEN err ELSE NoError, stage |-> stage,
   checked |-> checked, wrote |-> wrote,
   \* ghosts, set by the steps: the checked outputs that were out of date
   \* before the build; whether the command before was a build too; whether
   \* the build left every file as it was; what clean removed
   stale |-> {}, repeat |-> FALSE, same |-> FALSE, removed |-> {}]

\* the generation loop: for e in self.extensions: generate_main, then
\* generate_patched_aux; the first error ends the build
RECURSIVE GenerateAll(_, _, _, _)

\* the outcomes of one extension, m and a, joined to those of the rest, r
GenerateRest(m, a, r) ==
  [r EXCEPT !.checked = @ \cup m.checked \cup a.checked,
            !.wrote = @ \cup m.wrote \cup a.wrote]

\* after e.generate_patched_aux() returned a
GenerateAux(now, exts, h, m, a) ==
  IF a.err.some
    THEN [fl |-> a.fl, err |-> a.err, stage |-> "generate_patched_aux",
          checked |-> m.checked \cup a.checked, wrote |-> m.wrote \cup a.wrote]
  ELSE GenerateRest(m, a, GenerateAll(a.fl, now, Tail(exts), h))

\* after e.generate_main() returned m
GenerateMain(now, exts, h, m) ==
  IF m.err.some
    THEN [fl |-> m.fl, err |-> m.err, stage |-> "generate_main",
          checked |-> m.checked, wrote |-> m.wrote]
  ELSE GenerateAux(now, exts, h, m, generate_patched_aux(m.fl, now, Head(exts), h))

GenerateAll(fl, now, exts, h) ==
  IF exts = <<>> THEN [fl |-> fl, err |-> None, stage |-> "", checked |-> {}, wrote |-> {}]
  ELSE GenerateMain(now, exts, h, generate_main(fl, now, Head(exts)))

\* finalize_options once the generation loop returned g
finalize_generated(path_finder, mac, g) ==
  [fl |-> g.fl,
   out |-> Outcome("build", FALSE, path_finder, mac.val, g.err, g.stage,
                   g.checked, g.wrote)]

\* finalize_options once get_hdfs_macros returned mac
finalize_macros(fl, h, now, path_finder, mac) ==
  IF mac.err.some
    THEN [fl |-> fl,
          out |-> Outcome("build", FALSE, path_finder, {}, mac.err, "get_hdfs_macros", {}, {})]
  ELSE finalize_generated(path_finder, mac,
         GenerateAll(fl, now, <<create_full_pipes_ext(path_finder, h),
                                create_full_hdfs_ext(path_finder, h)>>, h))

\* finalize_options once the probe returned path_finder
finalize_paths(fl, h, now, path_finder) ==
  IF path_finder.err.some
    THEN [fl |-> fl,
          out |-> Outcome("build", FALSE, path_finder, {}, path_finder.err,
                          path_finder.stage, {}, {})]
  ELSE finalize_macros(fl, h, now, path_finder,
         get_hdfs_macros(fl, os_path_join(path_finder.hdfs_inc_path, HDFS_H)))

\* finalize_options: [fl: the files after it, out: its outcome]
finalize_options(fl, ds, env, h, now) ==
  finalize_paths(fl, h, now, init_paths(fl, ds, env, h))

-----------------------------------------------------------------------------
(* pydoop_clean.run *)

\* r.search(name) for r = '(_hdfs|_pipes)_.*_main.cpp$'
MainPattern(name) ==
  \E i \in DOMAIN name :
    /\ name[i] \in {HDFS_EXT_NAME[1], PIPES_EXT_NAME[1]}
    /\ i + 2 <= Len(name)
    /\ name[i + 1] = "_"
    /\ name[Len(name)] = "_main.cpp"

CLEAN_EXTRA_two == {<<"SerialUtils.cc">>, <<"HadoopPipes.cc">>}

CLEAN_EXTRA == {<<"SerialUtils.cc">>, <<"StringUtils.cc">>, <<"HadoopPipes.cc">>}

\* the directory of setup.py, from which the commands are run: relative paths
\* and paths under this_dir name the same files
this_dir == <<>>

\* pydoop_clean.run: the files after it
clean_run(fl, ds, dry_run) ==
  LET pydoop_src_path == os_path_join(this_dir, <<"src">>)
      paths == {n \in os_listdir(Existing(fl, ds), pydoop_src_path) : MainPattern(n)} \cup CLEAN_EXTRA
      absolute_paths == {os_path_join(pydoop_src_path, f) : f \in paths}
  IN IF dry_run THEN fl
     ELSE [p \in DOMAIN fl \ absolute_paths |-> fl[p]]

-----------------------------------------------------------------------------
(* The world the commands run in *)

P_JDK == <<SEP, "opt", SEP, "jdk">>
P_SRC == <<SEP, "opt", SEP, "platform", SEP, "src">>
P_HOME == <<SEP, "opt", SEP, "hadoop">>
P_HOME_SRC == os_path_join(P_HOME, <<"src">>)
P_USR_SRC_10 == os_path_join(USR_SRC, <<"hadoop", "-", "1.0">>)

Versions == {"0_20_2", "1_0_4"}

File(data) == [mt |-> 0, data |-> data]

\* a one-line declaration of name with n parameters, or one with its
\* parameter list broken after the first separator, or one followed on its line
\* by a comment that holds a parenthesised list
Params(n) == Flatten([i \in 1..n |-> IF i = 1 THEN <<"x">> ELSE <<",", "x">>])
Signature(name, n, layout) ==
  IF layout = "split"
    THEN <<"x", name, "(", "x">> \o (IF n > 1 THEN <<",", NL>> \o Params(n - 1) ELSE <<NL>>)
           \o <<")", ";", NL>>
  ELSE IF layout = "comment"
    THEN <<"x", name, "(">> \o Params(n) \o <<")", ";", "x", "(", "x", ",", "x", ")", NL>>
  ELSE <<"x", name, "(">> \o Params(n) \o <<")", ";", NL>>

HeaderText(sh) ==
  <<"x", NL>> \o Signature("hdfsDelete", sh.nd, sh.ld)
    \o Signature("hdfsConnectAsUser", sh.nc, sh.lc)

DefaultShape == [nd |-> 3, ld |-> "line", nc |-> 5, lc |-> "line"]

\* the text of a wrap source that exports its own name
WrapText(name) == <<"void", " ", "export_">> \o name \o <<"(", ")", "{", "}">>

WrapFiles ==
  [p \in Range(WrapSources(PIPES_SRC)) \cup Range(WrapSources(HDFS_SRC)) |->
     File(WrapText(CHOOSE n \in Range(PIPES_SRC) \cup Range(HDFS_SRC) :
                     p = <<"src", SEP>> \o n \o <<".cpp">>))]

\* the files of a Hadoop source tree at root with a c++ directory
TreeFiles(root, sh) ==
  LET basedir == os_path_join(root, <<"c++">>) IN
  (JoinAll(basedir, << <<"libhdfs">>, HDFS_H >>) :> File(HeaderText(sh)))
    @@ (SERIAL_UTILS_CC(basedir) :> File(<<INC_SERIAL_UTILS_HH, "x", SIG_OLD, BODY_OLD>>))
    @@ (STRING_UTILS_CC(basedir) :> File(<<"x">>))
    @@ (PIPES_CC(basedir) :> File(<<INC_PIPES_HH, "x", WB_HEAD, WB_TAIL>>))

LibFile == JoinAll(P_HOME, << <<"lib">>, LIBHDFS_SO >>) :> File(<<>>)

DefaultEnviron ==
  [n \in {"JAVA_HOME", "HADOOP_SRC", "HADOOP_INCLUDE_PATHS"} |->
     IF n = "JAVA_HOME" THEN [set |-> TRUE, val |-> P_JDK]
     ELSE IF n = "HADOOP_SRC" THEN [set |-> TRUE, val |-> P_SRC]
     ELSE [set |-> FALSE, val |-> <<>>]]

\* the orders in which a dict of three keys can list them
KeyOrders == {<<1, 2, 3>>, <<1, 3, 2>>, <<2, 1, 3>>, <<2, 3, 1>>, <<3, 1, 2>>, <<3, 2, 1>>}

DefaultHost ==
  [bits |-> "64bit", hadoop_home |-> Some(P_HOME), hadoop_version |-> "1_0_4",
   key_order |-> <<1, 2, 3>>, rules_reversed |-> FALSE, glob_reversed |-> FALSE]

DefaultFiles == WrapFiles @@ TreeFiles(P_SRC, DefaultShape) @@ LibFile
DefaultDirs == {P_JDK} \cup Range(SrcIncPaths(P_SRC))

Idle(op) == Outcome(op, FALSE, NoPaths, {}, None, "", {}, {})

Init ==
  /\ clock = 0
  /\ files = DefaultFiles
  /\ dirs = DefaultDirs
  /\ environ = DefaultEnviron
  /\ host = DefaultHost
  /\ shape = DefaultShape
  /\ made = {}
  /\ last = Idle("init")

-----------------------------------------------------------------------------
(* The commands and the environment's steps *)

\* the inputs the environment touches, removes and puts back
Originals(basedir) == {SERIAL_UTILS_CC(basedir), STRING_UTILS_CC(basedir), PIPES_CC(basedir)}
Touched ==
  {WrapSources(PIPES_SRC)[i] : i \in 1..NTouched}
    \cup {SERIAL_UTILS_CC(os_path_join(P_SRC, <<"c++">>))}

\* the clock advances
Tick ==
  /\ clock < MaxTime
  /\ clock' = clock + 1
  /\ UNCHANGED <<files, dirs, environ, host, shape, made, last>>

\* touch f
Touch(f) ==
  /\ f \in DOMAIN files
  /\ files' = [files EXCEPT ![f].mt = clock]
  /\ last' = Idle("env")
  /\ UNCHANGED <<clock, dirs, environ, host, shape, made>>

\* rm f
Remove(f) ==
  /\ f \in DOMAIN files
  /\ files' = RemoveFile(files, f)
  /\ last' = Idle("env")
  /\ UNCHANGED <<clock, dirs, environ, host, shape, made>>

\* f is moved back to its place, as it was
Restore(f) ==
  /\ f \notin DOMAIN files
  /\ files' = [p \in DOMAIN files \cup {f} |-> IF p = f THEN DefaultFiles[f] ELSE files[p]]
  /\ last' = Idle("env")
  /\ UNCHANGED <<clock, dirs, environ, host, shape, made>>

\* another Hadoop version is installed, or HADOOP_VERSION is changed
SwitchVersion ==
  /\ \E v \in Versions \ {host.hadoop_version} : host' = [host EXCEPT !.hadoop_version = v]
  /\ last' = Idle("env")
  /\ UNCHANGED <<clock, files, dirs, environ, shape, made>>

\* the declared inputs of the generated file o, as must_generate is given
\* them: the wrap sources of its module for an entry point, the original for
\* a staged file
Prerequisites(o) ==
  LET basedir == os_path_join(P_SRC, <<"c++">>) IN
  IF o \in {PatchedFile(fn) : fn \in Originals(basedir)}
    THEN <<CHOOSE fn \in Originals(basedir) : PatchedFile(fn) = o>>
  ELSE IF \E i \in DOMAIN o : o[i] = PIPES_EXT_NAME[1]
    THEN WrapSources(PIPES_SRC)
  ELSE WrapSources(HDFS_SRC)

DeclaredInputs(o) == Range(Prerequisites(o))

\* o is absent, or older than the newest of its declared inputs, all present
OutOfDate(fl, o) ==
  /\ DeclaredInputs(o) \subseteq DOMAIN fl
  /\ \/ o \notin DOMAIN fl
     \/ \E i \in DeclaredInputs(o) : fl[i].mt > fl[o].mt

\* the step a build makes, r being what finalize_options returned
BuildStep(r) ==
  /\ files' = r.fl
  /\ made' = made \cup r.out.wrote
  /\ last' = [r.out EXCEPT !.stale = {o \in r.out.checked : OutOfDate(files, o)},
                           !.repeat = (last.op = "build"),
                           !.same = (r.fl = files)]
  /\ UNCHANGED <<clock, dirs, environ, host, shape>>

\* python setup.py build
Build == BuildStep(finalize_options(files, dirs, environ, host, clock))

\* python setup.py clean
Clean ==
  \E dry_run \in BOOLEAN :
    /\ files' = clean_run(files, dirs, dry_run)
    /\ made' = made \cap DOMAIN files'
    /\ last' = [Idle("clean") EXCEPT !.dry_run = dry_run,
                                     !.removed = DOMAIN files \ DOMAIN files']
    /\ UNCHANGED <<clock, dirs, environ, host, shape>>

\* the staleness gate at work: inputs are touched as the clock advances, and
\* the tree is built and cleaned
Next ==
  \/ Tick
  \/ \E f \in Touched : Touch(f)
  \/ Build
  \/ Clean

Spec == Init /\ [][Next]_vars

\* inputs disappear and come back between builds
NextMissing ==
  \/ Tick
  \/ \E f \in Touched : Remove(f)
  \/ \E f \in Touched : Restore(f)
  \/ Build

InitMissing ==
  /\ clock = 0
  /\ files = DefaultFiles
  /\ dirs = DefaultDirs
  /\ environ = DefaultEnviron
  /\ \E o \in KeyOrders : host = [DefaultHost EXCEPT !.key_order = o]
  /\ shape = DefaultShape
  /\ made = {}
  /\ last = Idle("init")

SpecMissing == InitMissing /\ [][NextMissing]_vars

\* the installed Hadoop version changes between builds and cleans
NextClean ==
  \/ Tick
  \/ SwitchVersion
  \/ Build
  \/ Clean

SpecClean == Init /\ [][NextClean]_vars

-----------------------------------------------------------------------------
(* The probe in varying environments *)

\* the directories that come and go: a JDK in the first conventional place,
\* source trees under HADOOP_HOME and /usr/src, the two include directories
\* of the source tree, and the three places of the fallback search
ProbeDirs ==
  {JDK_CANDIDATES[1], P_HOME_SRC, P_USR_SRC_10}
    \cup Range(SrcIncPaths(P_SRC))
    \cup {IncGlobPatterns(P_SRC, DefaultHost)[1], IncGlobPatterns(P_SRC, DefaultHost)[2],
          JoinAll(USR_INCLUDE, << <<"hadoop", "-", "1.0">> >>)}

\* the values the variables are exported with
EnvValues(n) ==
  IF n = "JAVA_HOME" THEN {P_JDK}
  ELSE IF n = "HADOOP_SRC" THEN {P_SRC, <<>>}
  ELSE {os_path_dirname(SrcIncPaths(P_SRC)[1]) \o <<PATHSEP>> \o USR_INCLUDE}

\* mkdir -p d
MakeDir(d) ==
  /\ d \notin dirs
  /\ dirs' = dirs \cup {d}
  /\ last' = Idle("env")
  /\ UNCHANGED <<clock, files, environ, host, shape, made>>

\* rmdir d
RemoveDir(d) ==
  /\ d \in dirs
  /\ dirs' = dirs \ {d}
  /\ last' = Idle("env")
  /\ UNCHANGED <<clock, files, environ, host, shape, made>>

\* export n=v
SetEnv(n, v) ==
  /\ environ[n] # [set |-> TRUE, val |-> v]
  /\ environ' = [environ EXCEPT ![n] = [set |-> TRUE, val |-> v]]
  /\ last' = Idle("env")
  /\ UNCHANGED <<clock, files, dirs, host, shape, made>>

\* unset n
UnsetEnv(n) ==
  /\ environ[n].set
  /\ environ' = [environ EXCEPT ![n] = [set |-> FALSE, val |-> <<>>]]
  /\ last' = Idle("env")
  /\ UNCHANGED <<clock, files, dirs, host, shape, made>>

NextProbe ==
  \/ \E d \in ProbeDirs : MakeDir(d)
  \/ \E d \in ProbeDirs : RemoveDir(d)
  \/ \E n \in DOMAIN environ : \E v \in EnvValues(n) : SetEnv(n, v)
  \/ \E n \in DOMAIN environ : UnsetEnv(n)
  \/ Build

SpecProbe == Init /\ [][NextProbe]_vars

\* the probe of the last build got as far as the source root
ReachedSrc == last.op = "build" /\ last.stage # "java_home"

\* the probe of the last build got as far as the include directories
ReachedInc == last.op = "build" /\ last.stage \notin {"java_home", "src", "mapred_src"}

\* C3: when an override variable (JAVA_HOME, HADOOP_SRC, HADOOP_INCLUDE_PATHS)
\* is set, the filesystem search it overrides is never performed, whatever
\* exists on disk, and the probed value equals the override.
C3_OverridePrecedence ==
  /\ (last.op = "build" /\ environ["JAVA_HOME"].set) =>
       /\ last.paths.probed.java = {}
       /\ last.paths.java_home = Some(environ["JAVA_HOME"].val)
  /\ (ReachedSrc /\ environ["HADOOP_SRC"].set) =>
       /\ last.paths.probed.src = {}
       /\ last.paths.src = Some(environ["HADOOP_SRC"].val)
  /\ (ReachedInc /\ environ["HADOOP_INCLUDE_PATHS"].set) =>
       /\ last.paths.probed.inc = {}
       /\ last.paths.mapred_inc = SplitPathsep(environ["HADOOP_INCLUDE_PATHS"].val)

\* the variable that overrides what a stage of the probe looks for
OverrideVariable(stage) ==
  IF stage = "java_home" THEN "JAVA_HOME"
  ELSE IF stage = "src" THEN "HADOOP_SRC"
  ELSE "HADOOP_INCLUDE_PATHS"

\* C9: every failure of __init_paths for a resource that has an override
\* variable (toolchain home, source root, include directories) raises an
\* error whose message names the variable the prober reads to override it.
C9_ActionableFailures ==
  (last.op = "build" /\ last.err.some /\ last.stage \in {"java_home", "src", "mapred_inc"}) =>
    /\ last.err.val.type = "RuntimeError"
    /\ OverrideVariable(last.stage) \in Range(last.err.val.msg)

\* the first place of the fallback search that holds a candidate, 0 if none
FirstFallback(ex, src, h) ==
  IF JoinAll(src, << <<"mapred">>, <<"c++">>, arch_string(h), <<"include">>, <<"hadoop">> >>) \in ex
    THEN 1
  ELSE IF JoinAll(src, << <<"c++">>, arch_string(h), <<"include">>, <<"hadoop">> >>) \in ex
    THEN 2
  ELSE IF \E p \in ex : /\ os_path_dirname(p) = USR_INCLUDE
                        /\ os_path_basename(p)[1] = "hadoop"
    THEN 3
  ELSE 0

\* the parent directory of the candidate found in place k
FallbackParent(src, h, k) ==
  IF k = 1 THEN JoinAll(src, << <<"mapred">>, <<"c++">>, arch_string(h), <<"include">> >>)
  ELSE IF k = 2 THEN JoinAll(src, << <<"c++">>, arch_string(h), <<"include">> >>)
  ELSE USR_INCLUDE

\* C10: with HADOOP_INCLUDE_PATHS unset, if both <src>/c++/pipes/api/hadoop
\* and <src>/c++/utils/api/hadoop exist, mapred_inc is exactly their two
\* parent directories in that order; if one is missing, neither is used and
\* mapred_inc is the single parent directory of the first candidate of the
\* fallback search, or the probe fails when there is no candidate.
C10_IncludeResolution ==
  (ReachedInc /\ ~environ["HADOOP_INCLUDE_PATHS"].set) =>
    LET ex == Existing(files, dirs)
        src == last.paths.src.val
        pipes_api == JoinAll(src, << <<"c++">>, <<"pipes">>, <<"api">> >>)
        utils_api == JoinAll(src, << <<"c++">>, <<"utils">>, <<"api">> >>)
        k == FirstFallback(ex, src, host)
    IN
    IF os_path_join(pipes_api, <<"hadoop">>) \in ex /\ os_path_join(utils_api, <<"hadoop">>) \in ex
      THEN last.stage # "mapred_inc" /\ last.paths.mapred_inc = <<pipes_api, utils_api>>
    ELSE IF k # 0
      THEN last.stage # "mapred_inc" /\ last.paths.mapred_inc = <<FallbackParent(src, host, k)>>
    ELSE last.stage = "mapred_inc" /\ last.err.some

\* a probe that found one of the two missing and took the second place of
\* the fallback search, though the other include directory and a candidate
\* of the third place exist
C10_Witness ==
  /\ ReachedInc
  /\ ~environ["HADOOP_INCLUDE_PATHS"].set
  /\ SrcIncPaths(P_SRC)[1] \in dirs
  /\ SrcIncPaths(P_SRC)[2] \notin dirs
  /\ JoinAll(USR_INCLUDE, << <<"hadoop", "-", "1.0">> >>) \in dirs
  /\ last.paths.mapred_inc = <<FallbackParent(P_SRC, host, 2)>>

-----------------------------------------------------------------------------
(* Capability detection on varying headers *)

\* the ways hdfs.h declares the two functions
Shapes ==
  [nd : 1..MaxParams, ld : {"line", "split", "comment"},
   nc : 1..MaxParams, lc : {"line", "split", "comment"}]

InitHeader ==
  /\ clock = 0
  /\ shape \in Shapes
  /\ files = WrapFiles @@ TreeFiles(P_SRC, shape) @@ LibFile
  /\ dirs = DefaultDirs
  /\ environ = DefaultEnviron
  /\ host = DefaultHost
  /\ made = {}
  /\ last = Idle("init")

\* the tree is built and cleaned
NextRebuild ==
  \/ Build
  \/ Clean

SpecHeader == InitHeader /\ [][NextRebuild]_vars

\* C4: for every header text with an hdfsDelete(...) and an
\* hdfsConnectAsUser(...) signature, get_hdfs_macros sets RECURSIVE_DELETE
\* exactly when hdfsDelete has more than 2 parameters and CONNECT_GROUP_INFO
\* exactly when hdfsConnectAsUser has more than 3; each flag is decided
\* independently of the other signature.
C4_CapabilityDetection ==
  (last.op = "build" /\ ~last.paths.err.some) =>
    /\ last.stage # "get_hdfs_macros"
    /\ "RECURSIVE_DELETE" \in last.macros <=> shape.nd > 2
    /\ "CONNECT_GROUP_INFO" \in last.macros <=> shape.nc > 3

-----------------------------------------------------------------------------
(* The entry point generated from varying wrap sources *)

GlueKinds == {"none", "plain", "newline", "two", "later", "glued", "bare", "long"}

\* a wrap source of each kind
GlueText(k) ==
  IF k = "plain" THEN <<"void", " ", "export_", "a", "(", ")", "{", "}">>
  ELSE IF k = "newline" THEN <<"x", NL, "void", NL, " ", "export_", "b", "(", ")", "{", "}">>
  ELSE IF k = "two"
    THEN <<"void", " ", "export_", "a", "(", ")", "{", "}", NL,
           "void", " ", "export_", "b", "(", ")", "{", "}">>
  ELSE IF k = "later"
    THEN <<"int", " ", "export_", "a", "(", ")", "{", "}", NL,
           "void", " ", "export_", "b", "(", ")", "{", "}">>
  ELSE IF k = "glued" THEN <<"void", "export_", "a", "(", ")", "{", "}">>
  ELSE IF k = "bare" THEN <<"void", " ", "export_", "(", ")", "{", "}">>
  ELSE IF k = "long" THEN <<"void", " ", " ", "export_", "a", "b", "(", ")", "{", "}">>
  ELSE <<"x">>

\* what the first export declaration of a wrap source of each kind names
GlueSuffix(k) ==
  IF k \in {"plain", "two"} THEN Some(<<"a">>)
  ELSE IF k \in {"newline", "later"} THEN Some(<<"b">>)
  ELSE IF k = "long" THEN Some(<<"a", "b">>)
  ELSE None

InitGlue ==
  /\ clock = 0
  /\ \E ks \in [DOMAIN HDFS_SRC -> GlueKinds] :
       files = [p \in DOMAIN DefaultFiles |->
                  IF \E i \in DOMAIN HDFS_SRC : WrapSources(HDFS_SRC)[i] = p
                    THEN File(GlueText(ks[CHOOSE i \in DOMAIN HDFS_SRC : WrapSources(HDFS_SRC)[i] = p]))
                  ELSE DefaultFiles[p]]
  /\ dirs = DefaultDirs
  /\ environ = DefaultEnviron
  /\ host = DefaultHost
  /\ shape = DefaultShape
  /\ made = {}
  /\ last = Idle("init")

SpecGlue == InitGlue /\ [][NextRebuild]_vars

\* the lines of a text that ends every line with os.linesep
RECURSIVE SplitLines(_)
SplitLines(t) ==
  LET S == {i \in DOMAIN t : t[i] = NL} IN
  IF S = {} THEN (IF t = <<>> THEN <<>> ELSE <<t>>)
  ELSE LET i == CHOOSE k \in S : \A l \in S : k <= l IN
       <<SubSeq(t, 1, i - 1)>> \o SplitLines(SubSeq(t, i + 1, Len(t)))

\* the kind of the wrap source with text t
KindOf(t) == CHOOSE k \in GlueKinds : GlueText(k) = t

\* the suffixes the wrap sources export, in the order of wrap_sources
RECURSIVE ExportedSuffixes(_, _)
ExportedSuffixes(fl, wrap_sources) ==
  IF wrap_sources = <<>> THEN <<>>
  ELSE LET e == GlueSuffix(KindOf(fl[Head(wrap_sources)].data)) IN
       (IF e.some THEN <<e.val>> ELSE <<>>) \o ExportedSuffixes(fl, Tail(wrap_sources))

HdfsMain == MainFile(create_full_hdfs_ext(NoPaths, host))

IsDeclaration(line) == line # <<>> /\ line[1] = "void"
IsInvocation(line) == line # <<>> /\ line[1] = "export_"

\* C5: whenever generate_main regenerates, the entry point holds, for each
\* wrap source with an export declaration, exactly one forward declaration
\* 'void export_<suffix>();' and exactly one invocation 'export_<suffix>();',
\* nothing for a wrap source without one, and both lists follow the order of
\* wrap_sources.
C5_GlueComplete ==
  (last.op = "build" /\ HdfsMain \in last.wrote) =>
    LET lines == SplitLines(files[HdfsMain].data)
        sufs == ExportedSuffixes(files, WrapSources(HDFS_SRC))
    IN
    /\ SelectSeq(lines, IsDeclaration)
         = [i \in DOMAIN sufs |-> <<"void", " ", "export_">> \o sufs[i] \o <<"(", ")", ";">>]
    /\ SelectSeq(lines, IsInvocation)
         = [i \in DOMAIN sufs |-> <<"export_">> \o sufs[i] \o <<"(", ")", ";">>]
    /\ Len(lines) = 2 * Len(sufs) + 3

\* an entry point generated from one source that exports nothing between two
\* that export, the first with a second declaration that must not count
C5_Witness ==
  /\ last.op = "build"
  /\ HdfsMain \in last.wrote
  /\ KindOf(files[WrapSources(HDFS_SRC)[1]].data) = "two"
  /\ KindOf(files[WrapSources(HDFS_SRC)[2]].data) = "glued"
  /\ KindOf(files[WrapSources(HDFS_SRC)[3]].data) = "newline"
  /\ Len(SplitLines(files[HdfsMain].data)) = 7

-----------------------------------------------------------------------------
(* The patcher on varying originals *)

\* the tokens the tried originals are made of
PatchAlphabet == {"x", INC_SERIAL_UTILS_HH, SIG_OLD, BODY_OLD, INC_PIPES_HH, WB_HEAD, WB_TAIL}

\* what the tokens of the rules of fn and "x" can spell
TriedTexts(fn) ==
  LET used == {"x"} \cup UNION {Range(r[1]) : r \in PatchTable(os_path_join(P_SRC, <<"c++">>))[fn]}
  IN {t \in UNION {[1..k -> PatchAlphabet] : k \in 0..MaxText} :
        Range(t) \subseteq used \cup {INC_SERIAL_UTILS_HH}}

InitPatch ==
  /\ clock = 0
  /\ \E fn \in Originals(os_path_join(P_SRC, <<"c++">>)) : \E t \in TriedTexts(fn) :
       files = [p \in DOMAIN DefaultFiles |-> IF p = fn THEN File(t) ELSE DefaultFiles[p]]
  /\ dirs = DefaultDirs
  /\ environ = DefaultEnviron
  /\ \E rev \in BOOLEAN : host = [DefaultHost EXCEPT !.rules_reversed = rev]
  /\ shape = DefaultShape
  /\ made = {}
  /\ last = Idle("init")

SpecPatch == InitPatch /\ [][NextRebuild]_vars

\* where old occurs in t
Occurrences(t, old) ==
  {i \in 1..(Len(t) - Len(old) + 1) : SubSeq(t, i, i + Len(old) - 1) = old}

\* t with every occurrence of the old text of a rule replaced by its new text
\* and every other token kept; the old texts of the rules do not overlap
EveryOccurrenceReplaced(t, rules) ==
  Flatten([i \in DOMAIN t |->
    IF \E r \in rules : i \in Occurrences(t, r[1])
      THEN (CHOOSE r \in rules : i \in Occurrences(t, r[1]))[2]
    ELSE IF \E r \in rules : \E j \in Occurrences(t, r[1]) : j < i /\ i < j + Len(r[1])
      THEN <<>>
    ELSE <<t[i]>>])

\* C6: when generate_patched_aux regenerates a destination, the staged file
\* src/<basename> equals the original with every occurrence of OLD replaced
\* by NEW and nothing else changed; when OLD does not occur in the original,
\* or the file's replacement map is empty, the staged file is identical to
\* the original.
C6_PatchApplied ==
  last.op = "build" =>
    \A fn \in Originals(last.paths.mapred_src) :
      PatchedFile(fn) \in last.wrote =>
        LET rules == PatchTable(last.paths.mapred_src)[fn]
            original == files[fn].data
            staged == files[PatchedFile(fn)].data
        IN
        /\ staged = EveryOccurrenceReplaced(original, rules)
        /\ (\A r \in rules : Occurrences(original, r[1]) = {}) => staged = original

\* a staged file made from an original in which an old text occurs twice
C6_Witness ==
  /\ last.op = "build"
  /\ \E fn \in Originals(last.paths.mapred_src) :
       /\ PatchedFile(fn) \in last.wrote
       /\ \E r \in PatchTable(last.paths.mapred_src)[fn] :
            Cardinality(Occurrences(files[fn].data, r[1])) = 2
       /\ Len(files[PatchedFile(fn)].data) = Len(files[fn].data) + 2

-----------------------------------------------------------------------------
(* Clean *)

\* the entry points and staged files a build can leave in src
Generated ==
  {MainFile(create_full_pipes_ext(NoPaths, [host EXCEPT !.hadoop_version = v])) : v \in Versions}
    \cup {MainFile(create_full_hdfs_ext(NoPaths, [host EXCEPT !.hadoop_version = v])) : v \in Versions}
    \cup {<<"src", SEP, "SerialUtils.cc">>, <<"src", SEP, "StringUtils.cc">>,
          <<"src", SEP, "HadoopPipes.cc">>}

\* C7: after any sequence of builds, a clean that is not a dry run leaves in
\* src no entry point generated for either module and none of the staged
\* files SerialUtils.cc, StringUtils.cc, HadoopPipes.cc, whatever the
\* modification times; and every destination the pipes patch table can stage
\* is one of those three names.
C7_CleanRemovesAll ==
  /\ (last.op = "clean" /\ ~last.dry_run) =>
       /\ made = {}
       /\ Generated \cap DOMAIN files = {}
  /\ \A fn \in DOMAIN PatchTable(os_path_join(P_SRC, <<"c++">>)) :
       os_path_basename(PatchedFile(fn))
         \in {<<"SerialUtils.cc">>, <<"StringUtils.cc">>, <<"HadoopPipes.cc">>}
  /\ made \subseteq Generated

\* a clean that removed the entry points of two versions and the staged
\* files, written at different times
C7_Witness ==
  /\ last.op = "clean"
  /\ ~last.dry_run
  /\ Cardinality(last.removed) = 7
  /\ clock > 0

-----------------------------------------------------------------------------
(* Missing inputs *)

\* C8: if a wrap source is missing when generate_main runs, or the original
\* is missing when generate_patched_aux runs, the call fails with an error
\* instead of silently skipping, and the output file is neither created nor
\* modified by that call.
C8_MissingInputFails ==
  last.op = "build" =>
    /\ \A o \in last.checked :
         ~(DeclaredInputs(o) \subseteq DOMAIN files) =>
           /\ last.err.some
           /\ last.err.val.type = "IOError"
           /\ \E i \in DeclaredInputs(o) \ DOMAIN files :
                last.err.val.msg = <<"No such file or directory: ">> \o i
           /\ o \notin last.wrote
    /\ ~last.err.some =>
         /\ last.checked = {HdfsMain, MainFile(create_full_pipes_ext(NoPaths, host))}
                             \cup {PatchedFile(fn) : fn \in Originals(last.paths.mapred_src)}
         /\ \A o \in last.checked : DeclaredInputs(o) \subseteq DOMAIN files

\* a build that failed on a missing original whose staged file, made by an
\* earlier build, is still there
C8_Witness ==
  /\ last.op = "build"
  /\ last.err.some
  /\ last.stage = "generate_patched_aux"
  /\ \E o \in last.checked :
       /\ ~(DeclaredInputs(o) \subseteq DOMAIN files)
       /\ o \in DOMAIN files

-----------------------------------------------------------------------------
(* The staleness gate *)

\* what a build started in the files fl would write
Rebuilt(fl) == finalize_options(fl, dirs, environ, host, clock).out.wrote

\* what a build started in the files fl would check
Rechecked(fl) == finalize_options(fl, dirs, environ, host, clock).out.checked

\* a build rewrites exactly the outputs that were absent or older than the
\* newest of their declared inputs
StalenessGate ==
  last.op = "build" =>
    /\ ~last.err.some
    /\ \A o \in last.checked : o \in last.wrote <=> o \in last.stale

\* a build that follows a build, no input touched in between, writes nothing
UntouchedNeverRewrites ==
  (last.op = "build" /\ last.repeat) => last.wrote = {}

\* touching an input makes the next build rewrite every output it is declared for
TouchAlwaysRewrites ==
  \A f \in Touched :
    Touch(f) => \A o \in Rechecked(files') : f \in DeclaredInputs(o) => o \in Rebuilt(files')

\* touching an input later than the output was written makes the next build
\* rewrite the output
TouchLaterRewrites ==
  \A f \in Touched :
    Touch(f) =>
      \A o \in Rechecked(files') :
        (f \in DeclaredInputs(o) /\ (o \in DOMAIN files => mtime(files, o) < clock))
          => o \in Rebuilt(files')

\* C1, as stated: in every build an output is rewritten if and only if it is
\* absent or older than the newest of its declared inputs; touching any
\* declared input and rebuilding always rewrites the output; rebuilding with
\* no input touched never rewrites it.
C1_AsStated ==
  /\ [](StalenessGate /\ UntouchedNeverRewrites)
  /\ [][TouchAlwaysRewrites]_vars

\* C1, amended: in every build an output is rewritten if and only if it is
\* absent or older than the newest of its declared inputs; touching a
\* declared input at a time later than the output's modification time and
\* rebuilding always rewrites the output; rebuilding with no input touched
\* never rewrites it.
C1_StalenessGate ==
  /\ [](StalenessGate /\ UntouchedNeverRewrites)
  /\ [][TouchLaterRewrites]_vars

\* a build after a touch rewrote some outputs and left the others alone
C1_Witness ==
  /\ last.op = "build"
  /\ last.wrote # {}
  /\ last.wrote # last.checked
  /\ last.wrote = last.stale

\* C2: running finalize_options twice in a row with unchanged inputs leaves
\* every generated and patched file byte-identical to what the first run
\* produced, and the second run writes nothing: every must_generate call
\* returns false.
C2_Idempotent ==
  (last.op = "build" /\ last.repeat) =>
    /\ last.same
    /\ last.checked # {}
    /\ \A o \in last.checked :
         /\ o \in DOMAIN files
         /\ ~must_generate(files, o, Prerequisites(o))

\* a second build in a row, after a first one that wrote every output
C2_Witness ==
  /\ last.op = "build"
  /\ last.repeat
  /\ last.same
  /\ made = last.checked
  /\ Cardinality(made) = 5

-----------------------------------------------------------------------------
(* The patcher between edits of the originals *)

\* an editor saves a change to the original f, the other originals being as
\* they were unpacked: no include line, the include line already preceded by
\* the stdint line, or up to MaxIncludes include lines, and the rest of the file
Edit(f) ==
  /\ f \in DOMAIN files
  /\ \A g \in Originals(os_path_join(P_SRC, <<"c++">>)) \ {f} : files[g] = DefaultFiles[g]
  /\ \E t \in {Flatten([i \in 1..k |-> <<Head(DefaultFiles[f].data)>>]) : k \in 0..MaxIncludes}
                \cup {<<INC_STDINT, Head(DefaultFiles[f].data)>>} :
       /\ t \o Tail(DefaultFiles[f].data) # files[f].data
       /\ files' = WriteFile(files, f, t \o Tail(DefaultFiles[f].data), clock)
  /\ last' = Idle("env")
  /\ UNCHANGED <<clock, dirs, environ, host, shape, made>>

\* one of the originals the patch table has rules for is edited and touched
\* as the clock advances, and the tree is built and cleaned
NextRepatch ==
  \/ Tick
  \/ \E f \in Originals(os_path_join(P_SRC, <<"c++">>)) :
       /\ PatchTable(os_path_join(P_SRC, <<"c++">>))[f] # {}
       /\ Edit(f)
  \/ \E f \in Originals(os_path_join(P_SRC, <<"c++">>)) :
       /\ PatchTable(os_path_join(P_SRC, <<"c++">>))[f] # {}
       /\ \A g \in Originals(os_path_join(P_SRC, <<"c++">>)) \ {f} : files[g] = DefaultFiles[g]
       /\ Touch(f)
  \/ Build
  \/ Clean

SpecRepatch == Init /\ [][NextRepatch]_vars

\* how often the token tok occurs in t
Count(t, tok) == Cardinality({i \in DOMAIN t : t[i] = tok})

\* staged is original with the replacements of rules applied exactly once:
\* every occurrence of an old text replaced, nothing else changed, and one
\* stdint line more for each include line original holds
PatchedOnce(staged, original, rules) ==
  /\ staged = EveryOccurrenceReplaced(original, rules)
  /\ Count(staged, INC_STDINT) =
       Count(original, INC_STDINT)
         + Cardinality(UNION {Occurrences(original, r[1]) :
                                r \in {q \in rules : INC_STDINT \in Range(q[2])}})

\* after a successful build every staged file is there
StagedPresent ==
  (last.op = "build" /\ ~last.err.some) =>
    \A fn \in Originals(last.paths.mapred_src) : PatchedFile(fn) \in DOMAIN files

\* after a successful build every staged file holds the once-patched current
\* content of its original
StagedAlwaysCurrent ==
  (last.op = "build" /\ ~last.err.some) =>
    \A fn \in Originals(last.paths.mapred_src) :
      /\ PatchedFile(fn) \in DOMAIN files
      /\ PatchedOnce(files[PatchedFile(fn)].data, files[fn].data,
                     PatchTable(last.paths.mapred_src)[fn])

\* after a successful build a staged file holds the once-patched current
\* content of its original if the build wrote it, or if the original was last
\* saved before the staged file was
StagedCurrentUnlessSameTime ==
  (last.op = "build" /\ ~last.err.some) =>
    \A fn \in Originals(last.paths.mapred_src) :
      (/\ PatchedFile(fn) \in DOMAIN files
       /\ \/ PatchedFile(fn) \in last.wrote
          \/ mtime(files, fn) < mtime(files, PatchedFile(fn)))
        => PatchedOnce(files[PatchedFile(fn)].data, files[fn].data,
                       PatchTable(last.paths.mapred_src)[fn])

\* a step changes a staged file only by storing the once-patched content its
\* original has before the step, whatever the staged file held
StagedFromOriginal ==
  \A fn \in Originals(os_path_join(P_SRC, <<"c++">>)) :
    (/\ PatchedFile(fn) \in DOMAIN files'
     /\ PatchedFile(fn) \in DOMAIN files => files'[PatchedFile(fn)] # files[PatchedFile(fn)])
      => /\ fn \in DOMAIN files
         /\ last'.op = "build"
         /\ PatchedFile(fn) \in last'.wrote
         /\ PatchedOnce(files'[PatchedFile(fn)].data, files[fn].data,
                        PatchTable(os_path_join(P_SRC, <<"c++">>))[fn])

\* C11, as stated: after any sequence of modify-or-touch, build and clean
\* steps with the pipes patch table, whenever a build has just completed
\* successfully each staged file's content equals the replacements applied
\* exactly once to the current content of its original, with no more than one
\* stdint line inserted per include line of the original.
C11_AsStated == StagedAlwaysCurrent

\* C11, amended: patches never accumulate. Whenever a build has just completed
\* successfully every staged file is present, and each staged file that the
\* build wrote, or whose original was last saved before the staged file was,
\* equals the replacements applied exactly once to the current content of its
\* original; and whenever any step changes a staged file, it is a build
\* storing the replacements applied exactly once to the content the original
\* holds at that moment, one stdint line per include line of the original,
\* whatever the staged file held before.
C11_PatchesNeverAccumulate ==
  /\ [](StagedPresent /\ StagedCurrentUnlessSameTime)
  /\ [][StagedFromOriginal]_vars

\* a rebuild rewrote the staged SerialUtils.cc after an edit that gave its
\* original two include lines, and left the staged HadoopPipes.cc of an
\* earlier build alone: two stdint lines, one before each include line
C11_Witness ==
  /\ last.op = "build"
  /\ ~last.err.some
  /\ PatchedFile(SERIAL_UTILS_CC(last.paths.mapred_src)) \in last.wrote
  /\ PatchedFile(PIPES_CC(last.paths.mapred_src)) \in DOMAIN files \ last.wrote
  /\ files[SERIAL_UTILS_CC(last.paths.mapred_src)].data =
       <<INC_SERIAL_UTILS_HH, INC_SERIAL_UTILS_HH, "x", SIG_OLD, BODY_OLD>>
  /\ files[PatchedFile(SERIAL_UTILS_CC(last.paths.mapred_src))].data =
       <<INC_STDINT, INC_SERIAL_UTILS_HH, INC_STDINT, INC_SERIAL_UTILS_HH,
         "x", SIG_NEW, BODY_NEW>>

====
